---- MODULE Spec2Model ----
(***************************************************************************)
(* confluo universal sketch (confluo_universal_sketch.h) and the stream    *)
(* summary it grew out of (stream_summary.h).                              *)
(*                                                                         *)
(* A universal sketch is a cascade of substream summaries.  Every          *)
(* substream summary holds a Count-Sketch, an L2^2 accumulator and a       *)
(* heavy-hitter tracker (an exact priority queue or an approximate array   *)
(* of atomic slots).  Threads call update, evaluate, is_valid and          *)
(* invalidate; every access to shared memory is one step of the model.     *)
(*                                                                         *)
(* count_sketch.h, hash_manager.h and priority_queue.h are not among the   *)
(* source files: the Count-Sketch, the hash functions and the heap are     *)
(* modelled from their specification (sections 4.A-4.D of spec.md).        *)
(***************************************************************************)
EXTENDS Integers, Sequences, FiniteSets, Bags, TLC

\* ------------------------------------------------------------- bounds
\* Key hashes are 0..MaxKey (0 is also the value of a slot never written).
MaxKey == 1
\* A hash function returns a value in 0..MaxHash.
MaxHash == 1
\* Number of update calls in one single-threaded behaviour.
MaxUpdates == 3
\* Number of update calls in one behaviour of one caller in exact mode.
MaxExactUpdates == 5
\* Number of update calls in one behaviour with concurrent callers.
MaxConcUpdates == 2
\* Number of invalidate calls in one behaviour.
MaxInvalidates == 2
\* Largest number of heavy hitters (k) a sketch is constructed with.
MaxHH == 2
\* The calls of stream_summary::update, and the largest incr of a call.
MaxSummaryUpdates == 3
MaxIncr == 2
\* The heavy hitter threshold a is one of 1/AlphaDen .. AlphaDen/AlphaDen.
AlphaDen == 2

\* Largest Count-Sketch width or depth the accuracy helpers return.
MaxParam == 3

\* ------------------------------------------- construction parameters
\* Largest number of layers (l) a sketch is constructed with.
MaxLayers == 3
\* t: Count-Sketch depth (number of rows).
Depth == 1
\* b: Count-Sketch width (number of buckets of a row).
Width == 2
\* Threads calling into the sketch.
NumThreads == 2

Keys == 0 .. MaxKey
Rows == 0 .. (Depth - 1)
Buckets == 0 .. (Width - 1)
HashVals == 0 .. MaxHash
Threads == 1 .. NumThreads
\* The functions g handed to evaluate: the identity and the square.
GFns == {"id", "sq"}
\* The result types of g: a signed integer counter, or a double.
RetTypes == {"int", "real"}

VARIABLES
    num_layers,      \* l, substream_summaries_.size()
    bucket_hash,     \* sketch_ bucket hashes: layer -> row -> key -> hash value
    sign_hash,       \* sketch_ sign hashes:   layer -> row -> key -> hash value
    layer_hashes_,   \* layer hash i (0..l-2): key -> hash value
    hh_hash_,        \* heavy hitter slot hash: layer -> key -> hash value
    precise_hh_,     \* exact (TRUE) or approximate (FALSE) heavy hitters
    num_hh_,         \* k
    hh_threshold_,   \* numerator of a (over AlphaDen)
    counters_,       \* Count-Sketch cells: layer -> row -> bucket -> counter
    l2_squared_,     \* layer -> L2^2 accumulator
    hhs_precise_,    \* layer -> bag of <<key, priority>> (the heap)
    heavy_hitters_,  \* layer -> slot -> key hash
    is_valid_,       \* the validity flag
    th,              \* thread -> the call it is in and its local variables
    n_updates,       \* update calls made so far
    inv_rets,        \* the values returned by invalidate so far, in order
    freq,            \* key -> update calls completed for it
    below_seen,      \* some substream update was below the threshold
    written,         \* layer -> slots some update has written
    late_update,     \* some update call was made with the validity flag false
    ingested_by,     \* layer -> key hashes a substream update has ingested
    l2_increments,   \* layer -> sum of the increments handed to the accumulator
    overlapped       \* some update call was made while another call was running

hashes == <<bucket_hash, sign_hash, layer_hashes_, hh_hash_>>
params == <<num_layers, precise_hh_, num_hh_, hh_threshold_>>

Layers == 0 .. (num_layers - 1)
sketch == <<counters_, l2_squared_, hhs_precise_, heavy_hitters_>>
history == <<ingested_by, l2_increments, overlapped>>
ghosts == <<n_updates, inv_rets, freq, below_seen, written, late_update, history>>
vars == <<hashes, params, sketch, is_valid_, th, ghosts>>

\* ------------------------------------------------------- result values
\* A value of g's result type is hi * 2^64 + lo: TLC's integers cannot hold
\* 2^64, and the only large values the code produces are multiples of it.
Val(n) == [hi |-> 0, lo |-> n]
VAdd(a, b) == [hi |-> a.hi + b.hi, lo |-> a.lo + b.lo]
VScale(n, a) == [hi |-> n * a.hi, lo |-> n * a.lo]
\* Conversion to a 64-bit signed integer: modulo 2^64 (|lo| < 2^63 here).
WrapInt(a) == [hi |-> 0, lo |-> a.lo]
\* Conversion to double: next to a multiple of 2^64 a small lo is rounded away.
RoundReal(a) == IF a.hi # 0 THEN [hi |-> a.hi, lo |-> 0] ELSE a
Conv(rt, a) == IF rt = "int" THEN WrapInt(a) ELSE RoundReal(a)

\* g(count), a value of the result type.
G(g, c) == IF g = "id" THEN Val(c) ELSE Val(c * c)

\* ------------------------------------------------------------- hashes
\* byte_string().hash(), the empty-key sentinel: the value of an empty slot.
EmptyKeyHash == 0

to_bool(hashed_value) == hashed_value % 2

\* count_sketch: the sign of a key in a row, +1 or -1.
to_sign(hashed_value) == IF hashed_value % 2 = 1 THEN 1 ELSE -1

BucketOf(i, r, key) == bucket_hash[i][r][key] % Width
SignOf(i, r, key) == to_sign(sign_hash[i][r][key])

\* ------------------------------------------------------- Count-Sketch
RECURSIVE SortedInsert(_, _)
SortedInsert(s, x) ==
    IF s = <<>> THEN <<x>>
    ELSE IF x <= Head(s) THEN <<x>> \o s
    ELSE <<Head(s)>> \o SortedInsert(Tail(s), x)

RECURSIVE SortInts(_)
SortInts(s) == IF s = <<>> THEN <<>> ELSE SortedInsert(SortInts(Tail(s)), Head(s))

\* The median of the per-row estimates.
Median(s) == SortInts(s)[(Len(s) \div 2) + 1]

\* count_sketch::estimate on the cells cs of one layer.
Estimate(cs, i, key) ==
    Median([r \in 1 .. Depth |->
              SignOf(i, r - 1, key) * cs[r - 1][BucketOf(i, r - 1, key)]])

\* ------------------------------------------------------------ the heap
HeapSize(h) == BagCardinality(h)
HeapKeys(h) == {e[1] : e \in BagToSet(h)}
\* The entries that may be the root: those of minimum priority.
HeapMins(h) == {e \in BagToSet(h) : \A f \in BagToSet(h) : e[2] <= f[2]}
HeapRemoveOne(h, e) == h (-) SetToBag({e})
\* remove_if_exists: drops an entry of the key, if there is one.
HeapRemoveKey(h, key) ==
    IF key \in HeapKeys(h)
    THEN {HeapRemoveOne(h, e) : e \in {f \in BagToSet(h) : f[1] = key}}
    ELSE {h}
HeapPush(h, key, p) == h (+) SetToBag({<<key, p>>})

\* ------------------------------------------------------- thread state
Idle == [pc |-> "idle"]

SetTh(t, rec) == th' = [th EXCEPT ![t] = rec]

TypeOK ==
    /\ is_valid_ \in BOOLEAN
    /\ precise_hh_ \in BOOLEAN
    /\ num_hh_ \in 1 .. MaxHH
    /\ \A i \in Layers : IsABag(hhs_precise_[i])

InitSketch ==
    /\ counters_ = [i \in Layers |-> [r \in Rows |-> [b \in Buckets |-> 0]]]
    /\ l2_squared_ = [i \in Layers |-> 0]
    /\ hhs_precise_ = [i \in Layers |-> EmptyBag]
    /\ heavy_hitters_ = [i \in Layers |-> [s \in 0 .. (num_hh_ - 1) |-> 0]]
    /\ is_valid_ = TRUE
    /\ th = [t \in Threads |-> Idle]
    /\ n_updates = 0
    /\ inv_rets = <<>>
    /\ freq = [k \in Keys |-> 0]
    /\ below_seen = FALSE
    /\ written = [i \in Layers |-> {}]
    /\ late_update = FALSE
    /\ ingested_by = [i \in Layers |-> {}]
    /\ l2_increments = [i \in Layers |-> 0]
    /\ overlapped = FALSE

\* The hash functions a sketch can be constructed with, up to the symmetries
\* of the structure: renaming the buckets of a row, negating the signs of a
\* row and renaming the slots change no estimate and no heavy hitter, so key
\* hash 0 is given bucket 0, sign +1 and slot 0.
SketchHashes(v) ==
    {f \in [Layers -> [Rows -> [Keys -> HashVals]]] :
        \A i \in Layers : \A r \in Rows : f[i][r][0] = v}
SlotHashes == {f \in [Layers -> [Keys -> HashVals]] : \A i \in Layers : f[i][0] = 0}

\* The state after construction.  hh_hash_ is never applied in exact mode,
\* where it is left at one value.
Init ==
    /\ num_layers \in 1 .. MaxLayers
    /\ precise_hh_ \in BOOLEAN
    /\ num_hh_ \in 1 .. MaxHH
    /\ hh_threshold_ \in 1 .. AlphaDen
    /\ bucket_hash \in SketchHashes(0)
    /\ sign_hash \in SketchHashes(1)
    /\ layer_hashes_ \in [0 .. (num_layers - 2) -> [Keys -> HashVals]]
    /\ hh_hash_ \in IF precise_hh_ THEN {[i \in Layers |-> [k \in Keys |-> 0]]}
                    ELSE {f \in SlotHashes :
                            \A i \in Layers : \A k \in Keys : f[i][k] < num_hh_}
    /\ InitSketch

\* ------------------------------------------------------------- update
\* update(r): the record's key hash goes to layer 0.
UpdateCall(t, key, limit) ==
    /\ th[t].pc = "idle"
    /\ n_updates < limit
    /\ n_updates' = n_updates + 1
    /\ late_update' = (late_update \/ ~is_valid_)
    /\ overlapped' = (overlapped \/ \E u \in Threads \ {t} : th[u].pc # "idle")
    /\ SetTh(t, [pc |-> "cs", op |-> "update", key |-> key, i |-> 0, r |-> 0,
                 est |-> <<>>, ingested |-> [j \in Layers |-> 0]])
    /\ UNCHANGED <<hashes, params, sketch, is_valid_, inv_rets, freq,
                   below_seen, written, ingested_by, l2_increments>>

\* A variant of the threshold test, count <= hh_threshold_ * sqrt(l2sq).
AtOrBelowThreshold(count, l2sq) ==
    IF l2sq < 0 THEN FALSE
    ELSE IF count < 0 THEN TRUE
    ELSE AlphaDen * AlphaDen * count * count
            <= hh_threshold_ * hh_threshold_ * l2sq

\* The heavy hitter threshold test, count < hh_threshold_ * sqrt(l2sq):
\* sqrt of a negative number is NaN, and every comparison with NaN is false.
BelowThreshold(count, l2sq) ==
    IF l2sq < 0 THEN FALSE
    ELSE IF count < 0 THEN TRUE
    ELSE AlphaDen * AlphaDen * count * count
            < hh_threshold_ * hh_threshold_ * l2sq

\* sketch_.update_and_estimate, one row: fetch-and-add of the key's sign on
\* its cell; the row's estimate is the sign times the cell's old value.
SketchFaa(t) ==
    LET s == th[t]
        b == BucketOf(s.i, s.r, s.key)
        sg == SignOf(s.i, s.r, s.key)
        old == counters_[s.i][s.r][b]
        est == Append(s.est, sg * old)
    IN /\ s.pc = "cs"
       /\ counters_' = [counters_ EXCEPT ![s.i][s.r][b] = old + sg]
       /\ IF s.r + 1 < Depth
          THEN SetTh(t, [s EXCEPT !.r = s.r + 1, !.est = est])
          ELSE SetTh(t, [pc |-> "l2", op |-> "update", key |-> s.key, i |-> s.i,
                         old_count |-> Median(est), ingested |-> s.ingested])
       /\ UNCHANGED <<hashes, params, l2_squared_, hhs_precise_, heavy_hitters_,
                      is_valid_, ghosts>>

\* A variant of l2_squared_update, (c + 1)^2 in place of (c + 1)^2 - c^2.
l2_squared_new(old_count) == (old_count + 1) * (old_count + 1)

\* A variant of l2_squared_update, (c - 1)^2 - c^2 in place of (c + 1)^2 - c^2.
l2_squared_downdate(old_count) == 1 - 2 * old_count

l2_squared_update(old_count) == 2 * old_count + 1

\* The fetch-and-add on l2_squared_, the threshold test of update_hh_pq or
\* update_hh_approx on the thread's own values, and the dispatch.
\* A variant of update that hands the heavy hitters the count before the
\* update.
OldCount(old_count) == old_count

\* update: the count handed to update_hh_pq and update_hh_approx.
NewCount(old_count) == old_count + 1

L2Faa(t) ==
    LET s == th[t]
        update == l2_squared_update(s.old_count)
        old_l2_sq == l2_squared_[s.i]
        count == NewCount(s.old_count)
        below == BelowThreshold(count, old_l2_sq + update)
        next == [pc |-> "next", op |-> "update", key |-> s.key, i |-> s.i,
                 ingested |-> [s.ingested EXCEPT ![s.i] = @ + 1]]
    IN /\ s.pc = "l2"
       /\ l2_squared_' = [l2_squared_ EXCEPT ![s.i] = old_l2_sq + update]
       /\ below_seen' = (below_seen \/ below)
       /\ ingested_by' = [ingested_by EXCEPT ![s.i] = @ \cup {s.key}]
       /\ l2_increments' = [l2_increments EXCEPT ![s.i] = @ + 2 * s.old_count + 1]
       /\ IF below THEN SetTh(t, next)
          ELSE IF precise_hh_
          THEN SetTh(t, [next EXCEPT !.pc = "pq_size"] @@ [count |-> count])
          ELSE SetTh(t, [next EXCEPT !.pc = "ap_load"] @@ [count |-> count])
       /\ UNCHANGED <<hashes, params, counters_, hhs_precise_, heavy_hitters_,
                      is_valid_, n_updates, inv_rets, freq, written,
                      late_update, overlapped>>

\* --------------------------------------------- exact heavy hitters
\* update_hh_pq: hhs_precise_.size() < num_hh_.
PqSize(t) ==
    LET s == th[t]
    IN /\ s.pc = "pq_size"
       /\ SetTh(t, [s EXCEPT !.pc = IF HeapSize(hhs_precise_[s.i]) < num_hh_
                                    THEN "pq_rm" ELSE "pq_top"])
       /\ UNCHANGED <<hashes, params, sketch, is_valid_, ghosts>>

\* update_hh_pq: hhs_precise_.top().key_; top() of an empty heap is undefined.
PqTop(t) ==
    LET s == th[t]
        h == hhs_precise_[s.i]
    IN /\ s.pc = "pq_top"
       /\ IF HeapSize(h) = 0
          THEN SetTh(t, [pc |-> "undefined"])
          ELSE \E e \in HeapMins(h) :
                  SetTh(t, [s EXCEPT !.pc = "pq_est"] @@ [head |-> e[1]])
       /\ UNCHANGED <<hashes, params, sketch, is_valid_, ghosts>>

\* A variant of update_hh_pq that compares the count with the priority
\* stored for the root, not with its estimate.
PqEstimateStored(t) ==
    LET s == th[t]
        keep == [pc |-> "next", op |-> "update", key |-> s.key, i |-> s.i,
                 ingested |-> s.ingested]
    IN /\ s.pc = "pq_est"
       /\ IF \E e \in BagToSet(hhs_precise_[s.i]) : e[2] < s.count
          THEN SetTh(t, [keep EXCEPT !.pc = "pq_pop"] @@ [count |-> s.count])
          ELSE SetTh(t, keep)
       /\ UNCHANGED <<hashes, params, sketch, is_valid_, ghosts>>

\* update_hh_pq: sketch_.estimate(head) < count.
PqEstimate(t) ==
    LET s == th[t]
        keep == [pc |-> "next", op |-> "update", key |-> s.key, i |-> s.i,
                 ingested |-> s.ingested]
    IN /\ s.pc = "pq_est"
       /\ IF Estimate(counters_[s.i], s.i, s.head) < s.count
          THEN SetTh(t, [keep EXCEPT !.pc = "pq_pop"] @@ [count |-> s.count])
          ELSE SetTh(t, keep)
       /\ UNCHANGED <<hashes, params, sketch, is_valid_, ghosts>>

\* update_hh_pq: hhs_precise_.pop(); pop() of an empty heap is undefined.
PqPop(t) ==
    LET s == th[t]
        h == hhs_precise_[s.i]
    IN /\ s.pc = "pq_pop"
       /\ IF HeapSize(h) = 0
          THEN /\ SetTh(t, [pc |-> "undefined"])
               /\ UNCHANGED hhs_precise_
          ELSE /\ \E e \in HeapMins(h) :
                     hhs_precise_' = [hhs_precise_ EXCEPT ![s.i] = HeapRemoveOne(h, e)]
               /\ SetTh(t, [s EXCEPT !.pc = "pq_rm"] @@ [full |-> TRUE])
       /\ UNCHANGED <<hashes, params, counters_, l2_squared_, heavy_hitters_,
                      is_valid_, ghosts>>

\* A variant of update_hh_pq without remove_if_exists.
PqKeep(t) ==
    LET s == th[t]
    IN /\ s.pc = "pq_rm"
       /\ SetTh(t, [s EXCEPT !.pc = "pq_push"])
       /\ UNCHANGED <<hashes, params, sketch, is_valid_, ghosts>>

\* update_hh_pq: hhs_precise_.remove_if_exists(key_hash), in either branch.
PqRemove(t) ==
    LET s == th[t]
    IN /\ s.pc = "pq_rm"
       /\ \E h \in HeapRemoveKey(hhs_precise_[s.i], s.key) :
             hhs_precise_' = [hhs_precise_ EXCEPT ![s.i] = h]
       /\ SetTh(t, [s EXCEPT !.pc = "pq_push"])
       /\ UNCHANGED <<hashes, params, counters_, l2_squared_, heavy_hitters_,
                      is_valid_, ghosts>>

\* update_hh_pq: hhs_precise_.pushp(key_hash, count), in either branch.
PqPush(t) ==
    LET s == th[t]
    IN /\ s.pc = "pq_push"
       /\ hhs_precise_' = [hhs_precise_ EXCEPT
                             ![s.i] = HeapPush(hhs_precise_[s.i], s.key, s.count)]
       /\ SetTh(t, [pc |-> "next", op |-> "update", key |-> s.key, i |-> s.i,
                    ingested |-> s.ingested])
       /\ UNCHANGED <<hashes, params, counters_, l2_squared_, heavy_hitters_,
                      is_valid_, ghosts>>

\* --------------------------------------- approximate heavy hitters
\* A variant of update_hh_approx that takes the slot after the key's.
SlotOfOneMore(i, key) == IF hh_hash_[i][key] + 1 < num_hh_ THEN hh_hash_[i][key] + 1 ELSE 0

\* update_hh_approx: idx, the slot of a key hash.
SlotOf(i, key) == hh_hash_[i][key] % num_hh_

\* update_hh_approx: the load of the key's slot, and the test prev == key.
ApLoad(t) ==
    LET s == th[t]
        prev == heavy_hitters_[s.i][SlotOf(s.i, s.key)]
    IN /\ s.pc = "ap_load"
       /\ IF prev = s.key
          THEN SetTh(t, [pc |-> "next", op |-> "update", key |-> s.key,
                         i |-> s.i, ingested |-> s.ingested])
          ELSE SetTh(t, [pc |-> "ap_est", op |-> "update", key |-> s.key,
                         i |-> s.i, ingested |-> s.ingested, count |-> s.count,
                         prev |-> prev])
       /\ UNCHANGED <<hashes, params, sketch, is_valid_, ghosts>>

\* update_hh_approx: prev_count = sketch_.estimate(prev); prev_count > count.
ApEstimate(t) ==
    LET s == th[t]
        prev_count == Estimate(counters_[s.i], s.i, s.prev)
    IN /\ s.pc = "ap_est"
       /\ IF prev_count > s.count
          THEN SetTh(t, [pc |-> "next", op |-> "update", key |-> s.key,
                         i |-> s.i, ingested |-> s.ingested])
          ELSE SetTh(t, [s EXCEPT !.pc = "ap_cas"] @@ [prev_count |-> prev_count])
       /\ UNCHANGED <<hashes, params, sketch, is_valid_, ghosts>>

\* A variant of update_hh_approx that stores the key hash into the slot
\* whatever the slot holds.
ApStore(t) ==
    LET s == th[t]
        idx == SlotOf(s.i, s.key)
    IN /\ s.pc = "ap_cas"
       /\ heavy_hitters_' = [heavy_hitters_ EXCEPT ![s.i][idx] = s.key]
       /\ written' = [written EXCEPT ![s.i] = @ \cup {idx}]
       /\ SetTh(t, [pc |-> "next", op |-> "update", key |-> s.key,
                    i |-> s.i, ingested |-> s.ingested])
       /\ UNCHANGED <<hashes, params, counters_, l2_squared_, hhs_precise_,
                      is_valid_, n_updates, inv_rets, freq, below_seen,
                      late_update, history>>

\* A variant of update_hh_approx that repeats a failed compare-and-swap
\* with the value it loaded before.
ApCasNoReload(t) ==
    LET s == th[t]
        idx == SlotOf(s.i, s.key)
    IN /\ s.pc = "ap_cas"
       /\ IF heavy_hitters_[s.i][idx] = s.prev
          THEN /\ heavy_hitters_' = [heavy_hitters_ EXCEPT ![s.i][idx] = s.key]
               /\ written' = [written EXCEPT ![s.i] = @ \cup {idx}]
               /\ SetTh(t, [pc |-> "next", op |-> "update", key |-> s.key,
                            i |-> s.i, ingested |-> s.ingested])
          ELSE UNCHANGED <<heavy_hitters_, written, th>>
       /\ UNCHANGED <<hashes, params, counters_, l2_squared_, hhs_precise_,
                      is_valid_, n_updates, inv_rets, freq, below_seen,
                      late_update, history>>

\* update_hh_approx: the compare-and-swap; a failed one repeats the loop.
ApCas(t) ==
    LET s == th[t]
        idx == SlotOf(s.i, s.key)
    IN /\ s.pc = "ap_cas"
       /\ IF heavy_hitters_[s.i][idx] = s.prev
          THEN /\ heavy_hitters_' = [heavy_hitters_ EXCEPT ![s.i][idx] = s.key]
               /\ written' = [written EXCEPT ![s.i] = @ \cup {idx}]
               /\ SetTh(t, [pc |-> "next", op |-> "update", key |-> s.key,
                            i |-> s.i, ingested |-> s.ingested])
          ELSE /\ UNCHANGED <<heavy_hitters_, written>>
               /\ SetTh(t, [pc |-> "ap_load", op |-> "update", key |-> s.key,
                            i |-> s.i, ingested |-> s.ingested, count |-> s.count])
       /\ UNCHANGED <<hashes, params, counters_, l2_squared_, hhs_precise_,
                      is_valid_, n_updates, inv_rets, freq, below_seen,
                      late_update, history>>

\* ------------------------------------------------- stream_summary
\* stream_summary keeps one Count-Sketch, one heap and one slot array: the
\* fields of layer 0 of a sketch of one layer.
\* stream_summary::update(key, incr).
SsUpdateCall(t, key, incr) ==
    /\ th[t].pc = "idle"
    /\ n_updates < MaxSummaryUpdates
    /\ n_updates' = n_updates + 1
    /\ SetTh(t, [pc |-> "ss_cs", op |-> "ss_update", key |-> key, incr |-> incr,
                 r |-> 0, est |-> <<>>])
    /\ UNCHANGED <<hashes, params, sketch, is_valid_, inv_rets, freq,
                   below_seen, written, late_update, history>>

\* sketch_.update_and_estimate(key, incr), one row, and after the last row
\* the dispatch on use_precise_hh_ with the count old_count + incr.
SsSketchFaa(t) ==
    LET s == th[t]
        b == BucketOf(0, s.r, s.key)
        sg == SignOf(0, s.r, s.key)
        old == counters_[0][s.r][b]
        est == Append(s.est, sg * old)
        call == [op |-> "ss_update", key |-> s.key, count |-> Median(est) + s.incr]
    IN /\ s.pc = "ss_cs"
       /\ counters_' = [counters_ EXCEPT ![0][s.r][b] = old + sg * s.incr]
       /\ IF s.r + 1 < Depth
          THEN SetTh(t, [s EXCEPT !.r = s.r + 1, !.est = est])
          ELSE IF precise_hh_
          THEN SetTh(t, call @@ [pc |-> "ss_pq_size"])
          ELSE SetTh(t, call @@ [pc |-> "ss_ap_load"])
       /\ UNCHANGED <<hashes, params, l2_squared_, hhs_precise_, heavy_hitters_,
                      is_valid_, ghosts>>

\* update_hh_pq: hhs_precise_.size() < num_hh_; h0 records the heap the
\* call found.
SsPqSize(t) ==
    LET s == th[t]
        h == hhs_precise_[0]
    IN /\ s.pc = "ss_pq_size"
       /\ SetTh(t, [s EXCEPT !.pc = IF HeapSize(h) < num_hh_
                                    THEN "ss_pq_upsert" ELSE "ss_pq_update"]
                   @@ [h0 |-> h])
       /\ UNCHANGED <<hashes, params, sketch, is_valid_, ghosts>>

\* pq::update(key, count, insert): sets the priority of the key's entry and
\* returns true; without an entry, adds one when insert is set, and returns
\* false.
PqUpdate(h, key, count, insert) ==
    IF key \in HeapKeys(h)
    THEN {[heap |-> HeapPush(g, key, count), updated |-> TRUE] :
            g \in HeapRemoveKey(h, key)}
    ELSE {[heap |-> IF insert THEN HeapPush(h, key, count) ELSE h,
           updated |-> FALSE]}

\* update_hh_pq: hhs_precise_.update(key, count, true).
SsPqUpsert(t) ==
    LET s == th[t]
    IN /\ s.pc = "ss_pq_upsert"
       /\ \E u \in PqUpdate(hhs_precise_[0], s.key, s.count, TRUE) :
             hhs_precise_' = [hhs_precise_ EXCEPT ![0] = u.heap]
       /\ SetTh(t, [s EXCEPT !.pc = "ret"])
       /\ UNCHANGED <<hashes, params, counters_, l2_squared_, heavy_hitters_,
                      is_valid_, ghosts>>

\* update_hh_pq: updated = hhs_precise_.update(key, count, false).
SsPqUpdate(t) ==
    LET s == th[t]
    IN /\ s.pc = "ss_pq_update"
       /\ \E u \in PqUpdate(hhs_precise_[0], s.key, s.count, FALSE) :
             /\ hhs_precise_' = [hhs_precise_ EXCEPT ![0] = u.heap]
             /\ SetTh(t, [s EXCEPT !.pc = IF u.updated THEN "ret" ELSE "ss_pq_top"])
       /\ UNCHANGED <<hashes, params, counters_, l2_squared_, heavy_hitters_,
                      is_valid_, ghosts>>

\* update_hh_pq: hhs_precise_.top().key; top() of an empty heap is undefined.
SsPqTop(t) ==
    LET s == th[t]
        h == hhs_precise_[0]
    IN /\ s.pc = "ss_pq_top"
       /\ IF HeapSize(h) = 0
          THEN SetTh(t, [pc |-> "undefined"])
          ELSE \E e \in HeapMins(h) :
                  SetTh(t, [s EXCEPT !.pc = "ss_pq_est"] @@ [head |-> e])
       /\ UNCHANGED <<hashes, params, sketch, is_valid_, ghosts>>

\* A variant of update_hh_pq that replaces the root when its estimate is at
\* most the count.
SsPqEstimateOrEqual(t) ==
    LET s == th[t]
    IN /\ s.pc = "ss_pq_est"
       /\ SetTh(t, [s EXCEPT !.pc = IF Estimate(counters_[0], 0, s.head[1]) <= s.count
                                    THEN "ss_pq_pop" ELSE "ret"])
       /\ UNCHANGED <<hashes, params, sketch, is_valid_, ghosts>>

\* update_hh_pq: sketch_.estimate(hhs_precise_.top().key) < count.
SsPqEstimate(t) ==
    LET s == th[t]
    IN /\ s.pc = "ss_pq_est"
       /\ SetTh(t, [s EXCEPT !.pc = IF Estimate(counters_[0], 0, s.head[1]) < s.count
                                    THEN "ss_pq_pop" ELSE "ret"])
       /\ UNCHANGED <<hashes, params, sketch, is_valid_, ghosts>>

\* update_hh_pq: hhs_precise_.pop() removes the root top() returned.
SsPqPop(t) ==
    LET s == th[t]
    IN /\ s.pc = "ss_pq_pop"
       /\ hhs_precise_' = [hhs_precise_ EXCEPT
                             ![0] = HeapRemoveOne(hhs_precise_[0], s.head)]
       /\ SetTh(t, [s EXCEPT !.pc = "ss_pq_push"])
       /\ UNCHANGED <<hashes, params, counters_, l2_squared_, heavy_hitters_,
                      is_valid_, ghosts>>

\* update_hh_pq: hhs_precise_.pushp(key, count).
SsPqPush(t) ==
    LET s == th[t]
    IN /\ s.pc = "ss_pq_push"
       /\ hhs_precise_' = [hhs_precise_ EXCEPT
                             ![0] = HeapPush(hhs_precise_[0], s.key, s.count)]
       /\ SetTh(t, [s EXCEPT !.pc = "ret"])
       /\ UNCHANGED <<hashes, params, counters_, l2_squared_, heavy_hitters_,
                      is_valid_, ghosts>>

\* stream_summary::update_hh_approx: the load of the key's slot and the test
\* prev == key.
SsApLoad(t) ==
    LET s == th[t]
        prev == heavy_hitters_[0][SlotOf(0, s.key)]
    IN /\ s.pc = "ss_ap_load"
       /\ IF prev = s.key
          THEN SetTh(t, [s EXCEPT !.pc = "ret"])
          ELSE SetTh(t, [s EXCEPT !.pc = "ss_ap_cas"] @@ [prev |-> prev])
       /\ UNCHANGED <<hashes, params, sketch, is_valid_, ghosts>>

\* stream_summary::update_hh_approx: prev_count = sketch_.estimate(prev) and
\* done = (prev_count > count) ? true : cas(&heavy_hitters_[idx], &prev, key).
\* With one caller the slot still holds prev and the swap succeeds.
SsApCas(t) ==
    LET s == th[t]
        idx == SlotOf(0, s.key)
        prev_count == Estimate(counters_[0], 0, s.prev)
        done == [op |-> "ss_update", key |-> s.key, count |-> s.count]
    IN /\ s.pc = "ss_ap_cas"
       /\ IF prev_count > s.count
          THEN /\ UNCHANGED <<heavy_hitters_, written>>
               /\ SetTh(t, done @@ [pc |-> "ret"])
          ELSE IF heavy_hitters_[0][idx] = s.prev
          THEN /\ heavy_hitters_' = [heavy_hitters_ EXCEPT ![0][idx] = s.key]
               /\ written' = [written EXCEPT ![0] = @ \cup {idx}]
               /\ SetTh(t, done @@ [pc |-> "ret"])
          ELSE /\ UNCHANGED <<heavy_hitters_, written>>
               /\ SetTh(t, done @@ [pc |-> "ss_ap_load"])
       /\ UNCHANGED <<hashes, params, counters_, l2_squared_, hhs_precise_,
                      is_valid_, n_updates, inv_rets, freq, below_seen,
                      late_update, history>>


\* ------------------------------------------------- the layer loop
\* A variant of the loop of update(record) that goes two layers on.
NextIngestedSkipping(i, key) ==
    IF i + 2 < num_layers THEN i + 2 ELSE -1

\* A variant of the loop of update(record) that tests, for each layer, the
\* layer hash of its immediate predecessor only, and goes on after a 0.
NextIngestedByPredecessor(i, key) ==
    LET later == {j \in (i + 1) .. (num_layers - 1) :
                     to_bool(layer_hashes_[j - 1][key]) = 1}
    IN IF later = {} THEN -1
       ELSE CHOOSE j \in later : \A m \in later : j <= m

\* update's for loop, for a key that has been ingested by layer i: the next
\* layer that ingests it, or -1 when the loop ends.
NextIngested(i, key) ==
    IF i + 1 < num_layers /\ to_bool(layer_hashes_[i][key]) = 1 THEN i + 1 ELSE -1

NextLayer(t) ==
    LET s == th[t]
        n == NextIngested(s.i, s.key)
    IN /\ s.pc = "next"
       /\ IF n >= 0
          THEN SetTh(t, [pc |-> "cs", op |-> "update", key |-> s.key,
                         i |-> n, r |-> 0, est |-> <<>>,
                         ingested |-> s.ingested])
          ELSE SetTh(t, [pc |-> "ret", op |-> "update", key |-> s.key,
                         ingested |-> s.ingested])
       /\ UNCHANGED <<hashes, params, sketch, is_valid_, ghosts>>

\* A call returns to its caller.
Return(t) ==
    LET s == th[t]
    IN /\ s.pc = "ret"
       /\ SetTh(t, Idle)
       /\ freq' = IF s.op = "update" THEN [freq EXCEPT ![s.key] = @ + 1] ELSE freq
       /\ UNCHANGED <<hashes, params, sketch, is_valid_, n_updates, inv_rets,
                      below_seen, written, late_update, history>>

\* ----------------------------------------------------------- evaluate
\* The sum of the values of a set of <<tag, value>> pairs.
RECURSIVE VSum(_)
VSum(S) ==
    IF S = {} THEN Val(0)
    ELSE LET x == CHOOSE y \in S : TRUE IN VAdd(x[2], VSum(S \ {x}))

\* 1 - 2 * to_bool(h): to_bool returns a size_t, so the difference is taken
\* modulo 2^64: 1 when the bit is 0, 2^64 - 1 when it is 1.
OneMinusTwice(b) == IF b = 0 THEN Val(1) ELSE [hi |-> 1, lo |-> -1]

\* (1 - 2 * to_bool(h)) * g(count), stored in a g_ret_t.  With an integer
\* g_ret_t the product is taken modulo 2^64; with a double the size_t is
\* converted to double first.
SignedTerm(rt, b, gv) ==
    IF rt = "int"
    THEN WrapInt(VScale(gv.lo, OneMinusTwice(b)))
    ELSE RoundReal(VScale(gv.lo, RoundReal(OneMinusTwice(b))))

\* What evaluate adds for the last substream, one term per element visited.
LastTerms(i, g) ==
    IF precise_hh_
    THEN {[key |-> e[1], count |-> e[2], slot |-> -1,
           copies |-> CopiesIn(e, hhs_precise_[i]), update |-> G(g, e[2])] :
              e \in BagToSet(hhs_precise_[i])}
    ELSE {[key |-> heavy_hitters_[i][j], count |-> Estimate(counters_[i], i, 0),
           slot |-> j, copies |-> 1,
           update |-> G(g, Estimate(counters_[i], i, 0))] :
              j \in {n \in 0 .. (num_hh_ - 1) : heavy_hitters_[i][n] # 0}}

\* What evaluate adds to substream_sum for a substream that has a successor.
RestTerms(i, g, rt) ==
    IF precise_hh_
    THEN {[key |-> e[1], count |-> e[2], slot |-> -1,
           copies |-> CopiesIn(e, hhs_precise_[i]),
           update |-> SignedTerm(rt, to_bool(layer_hashes_[i][e[1]]), G(g, e[2]))] :
              e \in BagToSet(hhs_precise_[i])}
    ELSE {[key |-> heavy_hitters_[i][j],
           count |-> Estimate(counters_[i], i, heavy_hitters_[i][j]),
           slot |-> j, copies |-> 1,
           update |-> SignedTerm(rt, to_bool(layer_hashes_[i][heavy_hitters_[i][j]]),
                                 G(g, Estimate(counters_[i], i, heavy_hitters_[i][j])))] :
              j \in {n \in 0 .. (num_hh_ - 1) : heavy_hitters_[i][n] # EmptyKeyHash}}

TermsSum(rt, terms) ==
    Conv(rt, VSum({<<x, VScale(x.copies, x.update)>> : x \in terms}))

\* evaluate(g, nlayers), up to the end of "Handle last substream".
EvalBegin(t, op, g, rt, nlayers) ==
    LET terms == LastTerms(nlayers - 1, g)
    IN /\ th[t].pc = "idle"
       /\ SetTh(t, [pc |-> "ev_rest", op |-> op, g |-> g, rt |-> rt,
                    nlayers |-> nlayers, substream_i |-> nlayers - 1,
                    recursive_sum |-> TermsSum(rt, terms), terms |-> terms])
       /\ UNCHANGED <<hashes, params, sketch, is_valid_, ghosts>>

EvalCall(t, g, rt, nlayers) == EvalBegin(t, "evaluate2", g, rt, nlayers)

\* evaluate(g) uses all the layers.
EvalAllCall(t, g, rt) == EvalBegin(t, "evaluate1", g, rt, num_layers)

\* One round of "while (substream_i-- > 0)", or the return.
EvalRest(t) ==
    LET s == th[t]
        i == s.substream_i - 1
        terms == RestTerms(i, s.g, s.rt)
    IN /\ s.pc = "ev_rest"
       /\ IF s.substream_i > 0
          THEN SetTh(t, [s EXCEPT
                  !.substream_i = i,
                  !.terms = terms,
                  !.recursive_sum =
                      Conv(s.rt, VAdd(VScale(2, s.recursive_sum), TermsSum(s.rt, terms)))])
          ELSE SetTh(t, [pc |-> "ret", op |-> s.op, g |-> s.g, rt |-> s.rt,
                         nlayers |-> s.nlayers, ret |-> s.recursive_sum])
       /\ UNCHANGED <<hashes, params, sketch, is_valid_, ghosts>>

\* ------------------------------------------------- the validity flag
\* is_valid(): one atomic load.
IsValidCall(t) ==
    /\ th[t].pc = "idle"
    /\ SetTh(t, [pc |-> "ret", op |-> "is_valid", ret |-> is_valid_])
    /\ UNCHANGED <<hashes, params, sketch, is_valid_, ghosts>>

\* A variant of invalidate() that stores false, whatever the flag holds.
InvalidateStore(flag) == [flag |-> FALSE, ret |-> TRUE]

\* atomic::strong::cas(&is_valid_, &expected, false) with expected = true:
\* the new value of the flag and what the call returns.
InvalidateCas(flag) == [flag |-> IF flag = TRUE THEN FALSE ELSE flag,
                        ret |-> (flag = TRUE)]

\* A variant of invalidate() that also clears the Count-Sketch cells.
InvalidateAndClear(t) ==
    LET cas == InvalidateCas(is_valid_)
    IN /\ th[t].pc = "idle"
       /\ Len(inv_rets) < MaxInvalidates
       /\ is_valid_' = cas.flag
       /\ inv_rets' = Append(inv_rets, cas.ret)
       /\ counters_' = [i \in Layers |-> [r \in Rows |-> [b \in Buckets |-> 0]]]
       /\ SetTh(t, [pc |-> "ret", op |-> "invalidate", ret |-> cas.ret])
       /\ UNCHANGED <<hashes, params, l2_squared_, hhs_precise_, heavy_hitters_,
                      n_updates, freq, below_seen, written, late_update, history>>

\* invalidate(): one compare-and-swap.
InvalidateCall(t) ==
    LET cas == InvalidateCas(is_valid_)
    IN /\ th[t].pc = "idle"
       /\ Len(inv_rets) < MaxInvalidates
       /\ is_valid_' = cas.flag
       /\ inv_rets' = Append(inv_rets, cas.ret)
       /\ SetTh(t, [pc |-> "ret", op |-> "invalidate", ret |-> cas.ret])
       /\ UNCHANGED <<hashes, params, sketch, n_updates, freq, below_seen, written,
                      late_update, history>>

\* ---------------------------------------------- create_parameterized
\* The byte widths of the key types a column can have.
ByteWidths == {1, 2, 4, 8}
\* sizeof(column.type().size): the size of the field that holds the byte
\* width, fixed when the program is compiled.
FieldSizes == {4, 8}

\* The universal sketch constructor (l, t, b, k, a): t is the depth and b
\* the width of the Count-Sketch of every layer.
UniversalSketch(l, t, b, k, a) ==
    [layers |-> l, depth |-> t, width |-> b, num_hh |-> k, threshold |-> a]

\* create_parameterized, width and depth being the values returned by
\* error_margin_to_width(epsilon) and perror_to_depth(gamma).
create_parameterized(width, depth, k, a, field_size) ==
    UniversalSketch(8 * field_size, width, depth, k, a)

\* A call of create_parameterized for a column whose key type has the given
\* byte width.
CreateParameterizedCall(t, byte_width, field_size, width, depth, k, a) ==
    /\ th[t].pc = "idle"
    /\ SetTh(t, [pc |-> "ret", op |-> "create_parameterized",
                 byte_width |-> byte_width, width |-> width, depth |-> depth,
                 k |-> k, a |-> a,
                 ret |-> create_parameterized(width, depth, k, a, field_size)])
    /\ UNCHANGED <<hashes, params, sketch, is_valid_, ghosts>>

UpdateStep(t) ==
    \/ SketchFaa(t)
    \/ L2Faa(t)
    \/ PqSize(t)
    \/ PqTop(t)
    \/ PqEstimate(t)
    \/ PqPop(t)
    \/ PqRemove(t)
    \/ PqPush(t)
    \/ ApLoad(t)
    \/ ApEstimate(t)
    \/ ApCas(t)
    \/ NextLayer(t)

EvalStep(t) ==
    \/ \E g \in GFns, rt \in RetTypes :
          \/ EvalAllCall(t, g, rt)
          \/ \E n \in 1 .. num_layers : EvalCall(t, g, rt, n)
    \/ EvalRest(t)

\* One caller: every call runs to its return before the next one is made.
SeqNext ==
    \/ \E key \in Keys : UpdateCall(1, key, MaxUpdates)
    \/ UpdateStep(1)
    \/ EvalStep(1)
    \/ Return(1)

\* One caller of a sketch of two layers, with any hash functions.
SeqInit ==
    /\ num_layers = 2
    /\ Init

SeqSpec == SeqInit /\ [][SeqNext]_vars

\* One caller of a sketch of MaxLayers layers whose Count-Sketch and slot
\* hash functions are the same on every layer, with any layer hashes.
LayerInit ==
    /\ num_layers = MaxLayers
    /\ \E f \in [Rows -> [Keys -> HashVals]] : bucket_hash = [i \in Layers |-> f]
    /\ \E f \in [Rows -> [Keys -> HashVals]] : sign_hash = [i \in Layers |-> f]
    /\ precise_hh_ \in BOOLEAN
    /\ num_hh_ \in 1 .. MaxHH
    /\ \E f \in [Keys -> HashVals] : hh_hash_ = [i \in Layers |-> f]
    /\ Init

LayerSpec == LayerInit /\ [][SeqNext]_vars

\* One caller of update, on a sketch of one layer in exact mode.
ExactNext ==
    \/ \E key \in Keys : UpdateCall(1, key, MaxExactUpdates)
    \/ SketchFaa(1)
    \/ L2Faa(1)
    \/ PqSize(1)
    \/ PqTop(1)
    \/ PqEstimate(1)
    \/ PqPop(1)
    \/ PqRemove(1)
    \/ PqPush(1)
    \/ NextLayer(1)
    \/ Return(1)

ExactInit ==
    /\ num_layers = 1
    /\ precise_hh_ = TRUE
    /\ Init

ExactSpec == ExactInit /\ [][ExactNext]_vars

\* One caller of create_parameterized.
ParamNext ==
    \/ \E byte_width \in ByteWidths, field_size \in FieldSizes,
          width \in 1 .. MaxParam, depth \in 1 .. MaxParam,
          k \in 1 .. MaxHH, a \in 1 .. AlphaDen :
          CreateParameterizedCall(1, byte_width, field_size, width, depth, k, a)
    \/ Return(1)

ParamSpec == ExactInit /\ [][ParamNext]_vars

\* One caller of stream_summary::update, in either mode.
SummaryNext ==
    \/ \E key \in Keys, incr \in 1 .. MaxIncr : SsUpdateCall(1, key, incr)
    \/ SsSketchFaa(1)
    \/ SsPqSize(1)
    \/ SsPqUpsert(1)
    \/ SsPqUpdate(1)
    \/ SsPqTop(1)
    \/ SsPqEstimate(1)
    \/ SsPqPop(1)
    \/ SsPqPush(1)
    \/ SsApLoad(1)
    \/ SsApCas(1)
    \/ Return(1)

SummaryInit ==
    /\ num_layers = 1
    /\ hh_threshold_ = 1
    /\ Init

SummarySpec == SummaryInit /\ [][SummaryNext]_vars

\* Concurrent callers of update, on a sketch of two layers.
ConcNext ==
    \E t \in Threads :
        \/ \E key \in Keys : UpdateCall(t, key, MaxConcUpdates)
        \/ UpdateStep(t)
        \/ Return(t)

ConcSpec == SeqInit /\ [][ConcNext]_vars

\* Concurrent callers of update, on a sketch of one layer in approximate
\* mode with a = 1 / AlphaDen, any bucket and slot hashes and signs +1.
\* The key hashes are 0 .. MaxKey + 1, so that a slot can hold a value that
\* is neither the value an update loaded nor its key hash.
ApproxKeys == 0 .. (MaxKey + 1)

ApproxNext ==
    \E t \in Threads :
        \/ \E key \in ApproxKeys : UpdateCall(t, key, MaxConcUpdates)
        \/ SketchFaa(t)
        \/ L2Faa(t)
        \/ ApLoad(t)
        \/ ApEstimate(t)
        \/ ApCas(t)
        \/ NextLayer(t)
        \/ Return(t)

ApproxInit ==
    /\ num_layers = 1
    /\ precise_hh_ = FALSE
    /\ num_hh_ \in 1 .. MaxHH
    /\ hh_threshold_ = 1
    /\ bucket_hash \in [Layers -> [Rows -> [ApproxKeys -> HashVals]]]
    /\ sign_hash = [i \in Layers |-> [r \in Rows |-> [k \in ApproxKeys |-> 1]]]
    /\ layer_hashes_ = <<>>
    /\ hh_hash_ \in {f \in [Layers -> [ApproxKeys -> HashVals]] :
                        \A i \in Layers : \A k \in ApproxKeys : f[i][k] < num_hh_}
    /\ counters_ = [i \in Layers |-> [r \in Rows |-> [b \in Buckets |-> 0]]]
    /\ l2_squared_ = [i \in Layers |-> 0]
    /\ hhs_precise_ = [i \in Layers |-> EmptyBag]
    /\ heavy_hitters_ = [i \in Layers |-> [j \in 0 .. (num_hh_ - 1) |-> 0]]
    /\ is_valid_ = TRUE
    /\ th = [t \in Threads |-> Idle]
    /\ n_updates = 0
    /\ inv_rets = <<>>
    /\ freq = [k \in ApproxKeys |-> 0]
    /\ below_seen = FALSE
    /\ written = [i \in Layers |-> {}]
    /\ late_update = FALSE
    /\ ingested_by = [i \in Layers |-> {}]
    /\ l2_increments = [i \in Layers |-> 0]
    /\ overlapped = FALSE

ApproxSpec == ApproxInit /\ [][ApproxNext]_vars

\* A step of a running update of thread t.
ApproxRun(t) ==
    \/ SketchFaa(t)
    \/ L2Faa(t)
    \/ ApLoad(t)
    \/ ApEstimate(t)
    \/ ApCas(t)
    \/ NextLayer(t)

\* The same callers under fair scheduling: a thread that is in an update
\* goes on taking steps.
ApproxFairSpec ==
    /\ ApproxInit
    /\ [][ApproxNext]_vars
    /\ \A t \in Threads : WF_vars(ApproxRun(t))

\* Concurrent callers of every operation; evaluate is called on all the
\* layers.  The sketches of this specification have two layers, k = 1 and
\* a = 1 / AlphaDen, and their hash functions send key hash x to bucket x
\* and to sign +1 on every layer and pass key hash 1, not 0, to the next
\* layer; the mode is any.
LifeInit ==
    /\ num_layers = 2
    /\ num_hh_ = 1
    /\ hh_threshold_ = 1
    /\ bucket_hash = [i \in Layers |-> [r \in Rows |-> [k \in Keys |-> k]]]
    /\ sign_hash = [i \in Layers |-> [r \in Rows |-> [k \in Keys |-> 1]]]
    /\ precise_hh_ \in BOOLEAN
    /\ hh_hash_ = [i \in Layers |-> [k \in Keys |-> 0]]
    /\ layer_hashes_ = [i \in 0 .. (num_layers - 2) |-> [k \in Keys |-> k % 2]]
    /\ Init

Next ==
    \E t \in Threads :
        \/ \E key \in Keys : UpdateCall(t, key, MaxUpdates)
        \/ UpdateStep(t)
        \/ \E g \in GFns, rt \in RetTypes : EvalAllCall(t, g, rt)
        \/ EvalRest(t)
        \/ IsValidCall(t)
        \/ InvalidateCall(t)
        \/ Return(t)

Spec == LifeInit /\ [][Next]_vars

\* ============================================================== claims

\* C1: in exact mode the heavy-hitter heap of every layer holds at most k
\* entries in every reachable state, under any interleaving of concurrent
\* update calls.
C1_HeapAtMostK ==
    precise_hh_ => \A i \in Layers : HeapSize(hhs_precise_[i]) <= num_hh_

\* C2: the L2^2 accumulator of every layer is non-decreasing: its value after
\* a substream update is at least its value before.
C2_L2NonDecreasing ==
    [][\A i \in Layers : l2_squared_'[i] >= l2_squared_[i]]_vars

\* C2, amended: a substream update changes the accumulator of its layer by
\* 2 * c_old + 1, c_old being the estimate before the update; the accumulator
\* does not decrease across an update whose c_old is 0 or more, and nothing
\* else changes it.
C2_L2ChangesByEstimate ==
    [][\A i \in Layers :
          l2_squared_'[i] # l2_squared_[i] =>
             \E t \in Threads :
                /\ th[t].pc = "l2" /\ th[t].i = i /\ th'[t] # th[t]
                /\ l2_squared_'[i] - l2_squared_[i] = 2 * th[t].old_count + 1
                /\ th[t].old_count >= 0 => l2_squared_'[i] > l2_squared_[i]]_vars

\* An update with a positive estimate before it has raised an accumulator.
C2_Witness ==
    \E t \in Threads :
        /\ th[t].pc \in {"pq_size", "ap_load"}
        /\ th[t].count >= 2
        /\ l2_squared_[th[t].i] >= 4

\* The parity bits of the layer hashes 0 .. i-1 of a key are all 1.
AllPredecessorsOdd(i, key) ==
    \A j \in 0 .. (i - 1) : to_bool(layer_hashes_[j][key]) = 1

\* C3: update ingests the key hash into layer 0 always and into layer i > 0
\* iff the parity bit of every layer hash 0 .. i-1 of the key is 1; every
\* layer that ingests it gets exactly one substream update in the call.
C3_LayerPropagation ==
    \A t \in Threads :
        (th[t].pc = "ret" /\ th[t].op = "update") =>
            \A i \in Layers :
                th[t].ingested[i] = IF AllPredecessorsOdd(i, th[t].key) THEN 1 ELSE 0

\* An update has returned for a key whose layer hash 0 is even and whose
\* layer hash 1 is odd: layer 2 has not ingested it.
C3_Witness ==
    \E t \in Threads :
        /\ th[t].pc = "ret" /\ th[t].op = "update"
        /\ num_layers >= 3
        /\ to_bool(layer_hashes_[0][th[t].key]) = 0
        /\ to_bool(layer_hashes_[1][th[t].key]) = 1
        /\ th[t].ingested[0] = 1 /\ th[t].ingested[2] = 0

\* evaluate has just summed a substream that has a successor.
InRestRound(t) ==
    /\ th[t].pc = "ev_rest"
    /\ th[t].substream_i < th[t].nlayers - 1

\* C4: in evaluate, for every heavy key found at a layer that has a
\* successor, the factor multiplied with g(count) is +1 if update did not
\* propagate the key to the next layer and -1 if it did, whatever the result
\* type of g is.
C4_SignFactor ==
    \A t \in Threads :
        InRestRound(t) =>
            \A x \in th[t].terms :
                x.update = VScale(IF NextIngested(th[t].substream_i, x.key) >= 0
                                  THEN -1 ELSE 1,
                                  G(th[t].g, x.count))

\* The sum of g over the entries of the heap of layer i, and the signed sum.
HeapGSum(i, g) ==
    VSum({<<e, VScale(CopiesIn(e, hhs_precise_[i]), G(g, e[2]))>> :
             e \in BagToSet(hhs_precise_[i])}).lo
HeapSignedGSum(i, g) ==
    VSum({<<e, VScale(CopiesIn(e, hhs_precise_[i]) * (1 - 2 * to_bool(layer_hashes_[i][e[1]])),
                      G(g, e[2]))>> :
             e \in BagToSet(hhs_precise_[i])}).lo

\* S_i of the recursion over the layers i .. n-1.
RECURSIVE GSumFrom(_, _, _)
GSumFrom(i, n, g) ==
    IF i = n - 1 THEN HeapGSum(i, g)
    ELSE 2 * GSumFrom(i + 1, n, g) + HeapSignedGSum(i, g)

\* C5: in exact mode evaluate(g, nlayers) returns S_0 of the recursion
\* S_(nlayers-1) = sum of g(priority) over the heap of layer nlayers-1,
\* S_i = 2 * S_(i+1) + T_i, T_i = sum of (1 - 2 * parity) * g(c) over the heap
\* of layer i; evaluate(g) is evaluate(g, L).
C5_EvaluateRecursion ==
    \A t \in Threads :
        (th[t].pc = "ret" /\ th[t].op \in {"evaluate1", "evaluate2"} /\ precise_hh_) =>
            /\ th[t].ret = Val(GSumFrom(0, th[t].nlayers, th[t].g))
            /\ th[t].op = "evaluate1" => th[t].nlayers = num_layers

\* The keys the stream holds, and whether two of them share a bucket.
StreamKeys == {k \in Keys : freq[k] > 0}
NoCollision ==
    \A i \in Layers : \A r \in Rows : \A k1, k2 \in StreamKeys :
        k1 # k2 => BucketOf(i, r, k1) # BucketOf(i, r, k2)
TrueGSum(g) == VSum({<<k, G(g, freq[k])>> : k \in StreamKeys})

\* C6: in exact mode with one caller, when the stream has fewer than k
\* distinct keys, every update passed the threshold and no two keys collide,
\* evaluate(g) returns the sum of g(f_key) over the keys of the stream.
C6_ExactGSum ==
    \A t \in Threads :
        ( /\ th[t].pc = "ret" /\ th[t].op = "evaluate1"
          /\ precise_hh_
          /\ Cardinality(StreamKeys) < num_hh_
          /\ ~below_seen
          /\ NoCollision ) =>
            th[t].ret = TrueGSum(th[t].g)

\* C7: in approximate mode, for every layer evaluate uses, every slot some
\* update has written contributes g(estimate(v)) at the key hash v it holds,
\* by the Count-Sketch of that layer, and a slot never written contributes
\* nothing.
C7_ApproxTerms ==
    \A t \in Threads :
        (th[t].pc = "ev_rest" /\ ~precise_hh_) =>
            LET i == th[t].substream_i
            IN \A j \in 0 .. (num_hh_ - 1) :
                  IF j \in written[i]
                  THEN \E x \in th[t].terms :
                          /\ x.slot = j
                          /\ x.count = Estimate(counters_[i], i, heavy_hitters_[i][j])
                  ELSE \A x \in th[t].terms : x.slot # j

\* The number of invalidate() calls so far that returned true.
InvalidatesWon == Cardinality({n \in 1 .. Len(inv_rets) : inv_rets[n]})

\* C8: the validity flag goes from true to false once: it is true until the
\* first invalidate(), exactly one of the invalidate() calls made returns
\* true, a false flag stays false, and is_valid() returns true before the
\* first invalidate() and false after it.
C8_OneShotFlag ==
    /\ [](is_valid_ = (inv_rets = <<>>))
    /\ [](inv_rets # <<>> => InvalidatesWon = 1)
    /\ [][is_valid_ = FALSE => is_valid_' = FALSE]_vars
    /\ [][\A t \in Threads :
             (th[t].pc = "idle" /\ th'[t].pc = "ret" /\ th'[t].op = "is_valid") =>
                 th'[t].ret = (inv_rets = <<>>)]_vars

\* Two invalidate() calls have been made, and an is_valid() made after them
\* has returned false.
C8_Witness ==
    /\ Len(inv_rets) = 2
    /\ inv_rets[2] = FALSE
    /\ \E t \in Threads :
          th[t].pc = "ret" /\ th[t].op = "is_valid" /\ th[t].ret = FALSE

\* What the updates that have returned leave in cell (r, b) of the
\* Count-Sketch of layer 0.
CellOfStream(r, b) ==
    VSum({<<k, Val(SignOf(0, r, k) * freq[k])>> :
             k \in {x \in Keys : BucketOf(0, r, x) = b}}).lo

\* C9: invalidate() changes nothing but the validity flag: the step that
\* makes the call leaves the Count-Sketch cells, the L2^2 accumulators, the
\* heavy hitters and the position of every other call as they are; no other
\* step changes the flag; and the updates that have returned, made before
\* or after the invalidation, have all been counted in the Count-Sketch.
C9_InvalidateFrame ==
    /\ [][inv_rets' # inv_rets =>
             /\ UNCHANGED sketch
             /\ \A t \in Threads :
                   th'[t] # th[t] => (th[t].pc = "idle" /\ th'[t].op = "invalidate")]_vars
    /\ [][is_valid_' # is_valid_ => inv_rets' # inv_rets]_vars
    /\ []((\A t \in Threads : th[t].pc = "idle") =>
             \A r \in Rows : \A b \in Buckets :
                 counters_[0][r][b] = CellOfStream(r, b))

\* An update made after the invalidation has returned, an evaluate is under
\* way, and the flag is false.
C9_Witness ==
    /\ is_valid_ = FALSE
    /\ late_update
    /\ \E k \in Keys : freq[k] >= 2
    /\ \E t \in Threads : th[t].pc = "ev_rest"

\* C10: in exact mode, with one caller, the heap of every layer holds at
\* most one entry for each key hash.
C10_OneEntryPerKey ==
    precise_hh_ =>
        \A i \in Layers :
            \A e \in BagToSet(hhs_precise_[i]) :
                /\ CopiesIn(e, hhs_precise_[i]) = 1
                /\ \A f \in BagToSet(hhs_precise_[i]) : f[1] = e[1] => f = e

\* An update finds its key in a full heap, not at the root: the root has
\* been popped and the entry of the key is about to be removed.
C10_Witness ==
    \E t \in Threads :
        /\ th[t].pc = "pq_rm"
        /\ "full" \in DOMAIN th[t]
        /\ th[t].key \in HeapKeys(hhs_precise_[th[t].i])

\* The priorities stored for a key in the heap of layer i.
StoredCounts(i, key) == {e[2] : e \in {f \in BagToSet(hhs_precise_[i]) : f[1] = key}}

\* An update is about to replace the entry of its key in the heap.
Replacing(t) ==
    /\ precise_hh_
    /\ th[t].pc \in {"pq_pop", "pq_rm"}
    /\ StoredCounts(th[t].i, th[t].key) # {}

\* C11: in exact mode, whenever an update replaces the entry of a key that is
\* in the heap of a layer, the count it stores is greater than or equal to
\* the count stored before.
C11_StoredCountMonotone ==
    \A t \in Threads :
        Replacing(t) => \A c \in StoredCounts(th[t].i, th[t].key) : th[t].count >= c

\* No key that shares a cell with the key in layer i has the opposite sign.
NoOppositeSign(i, key) ==
    \A r \in Rows : \A k \in Keys :
        BucketOf(i, r, k) = BucketOf(i, r, key) => SignOf(i, r, k) = SignOf(i, r, key)

\* C11, amended: the count an update stores for its key is the estimate of
\* the key after the update, c_old + 1; it is greater than or equal to the
\* count stored before when no key that shares a Count-Sketch cell with the
\* key has the opposite sign.
C11_StoredCountIsEstimate ==
    \A t \in Threads :
        Replacing(t) =>
            /\ th[t].count = Estimate(counters_[th[t].i], th[t].i, th[t].key)
            /\ NoOppositeSign(th[t].i, th[t].key) =>
                  \A c \in StoredCounts(th[t].i, th[t].key) : th[t].count >= c

\* After updates of both keys, an update replaces the entry of its key and
\* stores a greater count.
C11_Witness ==
    \E t \in Threads :
        /\ Replacing(t)
        /\ \A k \in Keys \ {th[t].key} : freq[k] > 0
        /\ \E c \in StoredCounts(th[t].i, th[t].key) : th[t].count > c

\* The key hashes the heavy-hitter tracker of layer i holds: the keys of the
\* heap, or the values updates have written into the slots.
TrackedKeys(i) ==
    IF precise_hh_ THEN HeapKeys(hhs_precise_[i])
    ELSE {heavy_hitters_[i][j] : j \in written[i]}

\* C12: a key hash held by the heavy-hitter tracker of layer i has been
\* ingested by a substream update at every layer 0 .. i.
C12_TrackedWereIngested ==
    \A i \in Layers : \A k \in TrackedKeys(i) : \A j \in 0 .. i : k \in ingested_by[j]

\* The tracker of the last of three layers holds a key hash.
C12_Witness ==
    /\ num_layers >= 3
    /\ TrackedKeys(num_layers - 1) # {}
    /\ \E k \in Keys : k \notin ingested_by[num_layers - 1] /\ k \in ingested_by[0]

\* C13: create_parameterized returns a sketch of 8 * (byte width of the
\* column's key type) layers, whose Count-Sketch width is
\* error_margin_to_width(epsilon) and depth perror_to_depth(gamma) in every
\* layer, with k and a as they were passed.
C13_CreateParameterized ==
    \A t \in Threads :
        (th[t].pc = "ret" /\ th[t].op = "create_parameterized") =>
            /\ th[t].ret.layers = 8 * th[t].byte_width
            /\ th[t].ret.width = th[t].width
            /\ th[t].ret.depth = th[t].depth
            /\ th[t].ret.num_hh = th[t].k
            /\ th[t].ret.threshold = th[t].a

\* The heap h without the entries of the key.
WithoutKey(h, key) ==
    [e \in {f \in BagToSet(h) : f[1] # key} |-> CopiesIn(e, h)]

\* What a step of an exact heavy hitter update by thread t does to the heap
\* of its layer.
ExactUpdateStep(t) ==
    LET s == th[t]
        n == th'[t]
        h == hhs_precise_[s.i]
        hn == hhs_precise_'[s.i]
    IN /\ s.pc = "pq_size" =>
             /\ hn = h
             /\ n.pc = IF HeapSize(h) < num_hh_ THEN "pq_rm" ELSE "pq_top"
       /\ s.pc = "pq_top" =>
             /\ hn = h
             /\ n.pc = "pq_est"
             /\ \E e \in BagToSet(h) :
                   /\ e[1] = n.head
                   /\ \A f \in BagToSet(h) : e[2] <= f[2]
       /\ s.pc = "pq_est" =>
             IF Estimate(counters_[s.i], s.i, s.head) < s.count
             THEN n.pc = "pq_pop" /\ hn = h
             ELSE n.pc = "next" /\ hn = h
       /\ s.pc = "pq_pop" =>
             /\ n.pc = "pq_rm"
             /\ \E e \in BagToSet(h) :
                   /\ \A f \in BagToSet(h) : e[2] <= f[2]
                   /\ hn (+) SetToBag({e}) = h
       /\ s.pc = "pq_rm" =>
             /\ n.pc = "pq_push"
             /\ hn = WithoutKey(h, s.key)
       /\ s.pc = "pq_push" =>
             /\ n.pc = "next"
             /\ hn = WithoutKey(h, s.key) (+) SetToBag({<<s.key, s.count>>})
             /\ HeapSize(hn) <= num_hh_

\* C14: the exact heavy hitter update with count c = c_old + 1, one caller:
\* with fewer than k entries the entry of the key is replaced by (key, c) and
\* the other entries stay; with k entries and estimate(root key) < c the
\* root is removed and the entry of the key is replaced by (key, c); with k
\* entries and estimate(root key) >= c the heap is unchanged; nothing else
\* changes a heap.
C14_ExactUpdate ==
    [][\A t \in Threads :
          IF th'[t] # th[t] /\ th[t].pc \in {"pq_size", "pq_top", "pq_est",
                                             "pq_pop", "pq_rm", "pq_push"}
          THEN ExactUpdateStep(t)
          ELSE th'[t] # th[t] => hhs_precise_' = hhs_precise_]_vars

\* The heap is full, the root's estimate is at least the count, and the key
\* of the update is in the heap with a smaller count: nothing is to change.
C14_Witness ==
    \E t \in Threads :
        /\ th[t].pc = "pq_est"
        /\ Estimate(counters_[th[t].i], th[t].i, th[t].head) >= th[t].count
        /\ \E c \in StoredCounts(th[t].i, th[t].key) : c < th[t].count

\* The slots of a heavy hitter array.
Slots == 0 .. (num_hh_ - 1)

\* Thread t takes a step of update_hh_approx from position pc.
ApproxStepFrom(t, pc) == th[t].pc = pc /\ th'[t] # th[t]

\* C15: a slot changes only by a compare-and-swap of an update of layer i
\* on slot H_hh(key_hash) mod k, which replaces the value prev the update
\* loaded by its key hash, the estimate of prev the update took after the
\* load being at most its count; an update that finds its key hash in the
\* slot, or an estimate of prev above its count, writes nothing and ends.
C15_ApproxWrites ==
    /\ [][\A i \in Layers : \A j \in Slots :
             heavy_hitters_'[i][j] # heavy_hitters_[i][j] =>
                \E t \in Threads :
                   /\ ApproxStepFrom(t, "ap_cas")
                   /\ th[t].i = i
                   /\ j = hh_hash_[i][th[t].key] % num_hh_
                   /\ heavy_hitters_[i][j] = th[t].prev
                   /\ heavy_hitters_'[i][j] = th[t].key
                   /\ th[t].prev_count <= th[t].count]_vars
    /\ [][\A t \in Threads :
             /\ ApproxStepFrom(t, "ap_load") =>
                   LET v == heavy_hitters_[th[t].i][hh_hash_[th[t].i][th[t].key] % num_hh_]
                   IN IF v = th[t].key THEN th'[t].pc = "next"
                      ELSE th'[t].pc = "ap_est" /\ th'[t].prev = v
             /\ ApproxStepFrom(t, "ap_est") =>
                   LET c == Estimate(counters_[th[t].i], th[t].i, th[t].prev)
                   IN IF c > th[t].count THEN th'[t].pc = "next"
                      ELSE th'[t].pc = "ap_cas" /\ th'[t].prev_count = c]_vars

\* A compare-and-swap is about to fail: the slot holds neither the value
\* the update loaded nor its key hash.
C15_Witness ==
    \E t \in Threads :
        /\ th[t].pc = "ap_cas"
        /\ heavy_hitters_[th[t].i][hh_hash_[th[t].i][th[t].key] % num_hh_]
              \notin {th[t].prev, th[t].key}

\* Thread t is in an update call that has not returned.
InUpdate(t) == th[t].pc \in {"cs", "l2", "ap_load", "ap_est", "ap_cas", "next"}

\* C16: in approximate mode, with finitely many concurrent update calls and
\* fair scheduling, every update call gets out of the retry loop of
\* update_hh_approx and returns; a compare-and-swap fails only on a slot
\* that a compare-and-swap of some update has written.
C16_UpdateReturns ==
    /\ \A t \in Threads : InUpdate(t) ~> (th[t].pc = "ret")
    /\ [][\A t \in Threads :
             (ApproxStepFrom(t, "ap_cas") /\ th'[t].pc = "ap_load") =>
                 /\ heavy_hitters_[th[t].i][hh_hash_[th[t].i][th[t].key] % num_hh_]
                       # th[t].prev
                 /\ (hh_hash_[th[t].i][th[t].key] % num_hh_) \in written[th[t].i]]_vars

\* An update is back at the load after a failed compare-and-swap: the slot
\* holds another update's key hash.
C16_Witness ==
    \E t \in Threads :
        /\ th[t].pc = "ap_load"
        /\ heavy_hitters_[th[t].i][hh_hash_[th[t].i][th[t].key] % num_hh_]
              \notin {0, th[t].key}
        /\ \E u \in Threads \ {t} : th[u].pc = "ret"
        /\ n_updates = 2
        /\ \A k \in ApproxKeys : freq[k] = 0

\* C17: in approximate mode, under any interleaving of concurrent updates,
\* slot j of a layer holds its initial value or a key hash x with
\* H_hh(x) mod k = j, and no two slots of a layer hold the same non-empty
\* key hash.
C17_SlotOfKey ==
    ~precise_hh_ =>
        \A i \in Layers :
            /\ \A j \in Slots :
                  \/ heavy_hitters_[i][j] = 0 /\ j \notin written[i]
                  \/ /\ j \in written[i]
                     /\ hh_hash_[i][heavy_hitters_[i][j]] % num_hh_ = j
            /\ \A j1, j2 \in Slots :
                  (j1 # j2 /\ heavy_hitters_[i][j1] = heavy_hitters_[i][j2]) =>
                      heavy_hitters_[i][j1] = 0

\* Two slots of a layer hold key hashes, written by concurrent updates.
C17_Witness ==
    /\ ~precise_hh_
    /\ overlapped
    /\ \E i \in Layers : \E j1, j2 \in Slots :
          /\ j1 # j2
          /\ heavy_hitters_[i][j1] # 0
          /\ heavy_hitters_[i][j2] # 0

\* Every call has returned.
Quiescent == \A t \in Threads : th[t].pc = "idle"

\* The sum of the squared frequencies of the keys layer i has ingested.
SumOfSquares(i) == VSum({<<k, Val(freq[k] * freq[k])>> : k \in ingested_by[i]}).lo

\* C18: under any interleaving of substream updates, the L2^2 accumulator of
\* a layer is the sum of the increments 2 * c_old + 1 of the substream
\* updates applied to it; after updates made one at a time with no
\* two keys colliding in the Count-Sketch it is the sum of the squared
\* frequencies of the keys the layer has ingested.
C18_L2LosesNothing ==
    /\ \A i \in Layers : l2_squared_[i] = l2_increments[i]
    /\ (Quiescent /\ ~overlapped /\ NoCollision) =>
           \A i \in Layers : l2_squared_[i] = SumOfSquares(i)

\* Two updates of one key that ran at the same time have returned.
C18_Witness ==
    /\ Quiescent
    /\ overlapped
    /\ \E k \in Keys : freq[k] = 2
    /\ l2_squared_[0] = 4

\* The cells of layer i hold the signed number of updates of the keys the
\* layer ingests, the update of key in flight included.
CountsApplied(i, key) ==
    \A r \in Rows : \A b \in Buckets :
        counters_[i][r][b] =
            VSum({<<k, Val(SignOf(i, r, k) * (freq[k] + IF k = key THEN 1 ELSE 0))>> :
                    k \in {k \in Keys : BucketOf(i, r, k) = b
                                         /\ AllPredecessorsOdd(i, k)}}).lo

\* c < (hh_threshold_ / AlphaDen) * sqrt(l2sq), for l2sq >= 0.
StrictlyBelow(c, l2sq) ==
    c < 0 \/ AlphaDen * AlphaDen * c * c < hh_threshold_ * hh_threshold_ * l2sq

\* C19: a substream update whose new count c_old + 1 is strictly below
\* hh_threshold * sqrt(L2^2 after the update) leaves the heap and the slots
\* of its layer unchanged and ends there, with the Count-Sketch and the
\* L2^2 increments applied; one with c_old + 1 at or above the threshold
\* goes on to the exact update in exact mode and to the approximate update
\* otherwise; the heap and the slots change only in an update that was at
\* or above the threshold.
C19_ThresholdFrame ==
    [][\A t \in Threads :
          LET s == th[t]
              s2 == th'[t]
          IN /\ (s.pc = "l2" /\ s2.pc # "l2") =>
                   LET c == s.old_count + 1
                       l2sq == l2_squared_'[s.i]
                   IN /\ l2sq = l2_squared_[s.i] + 2 * s.old_count + 1
                      /\ CountsApplied(s.i, s.key)'
                      /\ hhs_precise_' = hhs_precise_
                      /\ heavy_hitters_' = heavy_hitters_
                      /\ l2sq >= 0 =>
                            IF StrictlyBelow(c, l2sq)
                            THEN s2.pc = "next"
                            ELSE /\ s2.pc = IF precise_hh_ THEN "pq_size" ELSE "ap_load"
                                 /\ s2.count = c /\ s2.key = s.key /\ s2.i = s.i
             /\ (s.pc # "idle" /\ s2 # s
                   /\ (hhs_precise_' # hhs_precise_ \/ heavy_hitters_' # heavy_hitters_)) =>
                   /\ \A i \in Layers \ {s.i} :
                         /\ hhs_precise_'[i] = hhs_precise_[i]
                         /\ heavy_hitters_'[i] = heavy_hitters_[i]
                   /\ ~StrictlyBelow(s.count, l2_squared_[s.i])
      ]_vars

\* An update that found room in the heap of layer 0 has ended there without
\* the key being in the heap, after a key of another bucket was counted.
C19_Witness ==
    \E t \in Threads :
        /\ th[t].pc = "next" /\ th[t].i = 0
        /\ precise_hh_
        /\ HeapSize(hhs_precise_[0]) < num_hh_
        /\ th[t].key \notin HeapKeys(hhs_precise_[0])
        /\ l2_squared_[0] > 1
        /\ \E k \in Keys : freq[k] > 0 /\ BucketOf(0, 0, k) # BucketOf(0, 0, th[t].key)

\* A call of update_hh_pq of stream_summary that found the heap full has
\* returned.
FullUpdateDone(t) ==
    /\ th[t].pc = "ret" /\ th[t].op = "ss_update"
    /\ precise_hh_
    /\ HeapSize(th[t].h0) >= num_hh_

\* C20: the exact update of stream_summary on a full heap (size >= k): a
\* key that is in the heap has its priority set to the new count and no
\* entry is evicted; a key that is not replaces the minimum entry when the
\* estimate of the minimum's key is below the new count, and otherwise the
\* heap is unchanged; the size of the heap stays k.
C20_SummaryFullHeap ==
    \A t \in Threads :
        FullUpdateDone(t) =>
            LET s == th[t]
                h == hhs_precise_[0]
            IN /\ HeapSize(h) = num_hh_
               /\ IF s.key \in HeapKeys(s.h0)
                  THEN \E e \in BagToSet(s.h0) :
                          /\ e[1] = s.key
                          /\ h = HeapPush(HeapRemoveOne(s.h0, e), s.key, s.count)
                  ELSE \E e \in HeapMins(s.h0) :
                          h = IF Estimate(counters_[0], 0, e[1]) < s.count
                              THEN HeapPush(HeapRemoveOne(s.h0, e), s.key, s.count)
                              ELSE s.h0

\* A key that was not in the full heap has replaced the minimum entry.
C20_Witness ==
    \E t \in Threads :
        /\ FullUpdateDone(t)
        /\ th[t].key \notin HeapKeys(th[t].h0)
        /\ th[t].key \in HeapKeys(hhs_precise_[0])

====
